---- MODULE Spec2Model ----
(***************************************************************************)
(* State-machine model of MNF.py: the MNF estimator class (fit, transform) *)
(* and the command-line script that drives it (argument parsing, raster    *)
(* read, component selection, fit_transform, raster save, CSV table).      *)
(*                                                                         *)
(* Numbers.  A pixel value is kept exactly as the rational p/q of its      *)
(* SQUARE (all modelled values are non-negative), so that r / sqrt(sum r^2)*)
(* has an exact canonical form.  NaN is a value of its own.  The values    *)
(* produced by the linear algebra of the whitening and of the PCA are not  *)
(* tracked: such a cell is "finite" (some finite float) or NaN.            *)
(* Explained-variance ratios are fixed-point numbers, One standing for 1.0.*)
(***************************************************************************)
EXTENDS Integers, Sequences, FiniteSets, TLC

VARIABLES mode, pc, argv, kwargs, disk, args, r2, n_components, img, self,
          fr, ret, lib, calls, first, tif, csv

vars == <<mode, pc, argv, kwargs, disk, args, r2, n_components, img, self,
          fr, ret, lib, calls, first, tif, csv>>

-----------------------------------------------------------------------------
(* Bounds of the model *)

\* largest number of pixels (rows * cols, or rows of a 2-D array) of an input
MaxPixels == 2
\* largest number of bands of an input
MaxBands == 2
\* largest number of transform calls one caller makes on one object
MaxCalls == 2
\* ratios fed to the variance accounting: One / RatioParts is the coarse step
RatioParts == 4
\* largest distance of such a ratio from a multiple of the coarse step
MaxPerturb == 5
\* largest band count of the ratio vectors fed to the variance accounting
MaxRatioBands == 4

(* Program constants *)

\* np.round(..., decimals=4)
Decimals == 4
\* ... * 100
Percent == 100
\* def __init__(self, n_components=1, ...)
DefaultComponents == 1

\* digital numbers stored in a raster cell
DN == {0, 1}

-----------------------------------------------------------------------------
(* Python values *)

PyInt(i) == [t |-> "int", v |-> i]
PyFalse == [t |-> "bool", v |-> 0]
PyTrue == [t |-> "bool", v |-> 1]
PyNone == [t |-> "NoneType", v |-> 0]
\* an option or keyword argument the caller did not give
Absent == [t |-> "absent", v |-> 0]

\* operator.index: what a slice bound evaluates to (bool is a subclass of int)
PyIndex(x) == x.v

\* x == True
PyEqTrue(x) == x.t \in {"int", "bool"} /\ x.v = 1

-----------------------------------------------------------------------------
(* Floating-point values *)

Exact(p, q) == [kind |-> "exact", p |-> p, q |-> q]
NaNv == [kind |-> "nan", p |-> 0, q |-> 0]
Fin == [kind |-> "finite", p |-> 0, q |-> 0]

RECURSIVE GCD(_, _)
GCD(a, b) == IF b = 0 THEN a ELSE GCD(b, a % b)

\* the canonical form of the rational p/q (q > 0)
Reduce(p, q) == IF p = 0 THEN Exact(0, 1)
                ELSE LET g == GCD(p, q) IN Exact(p \div g, q \div g)

\* int -> float32: the value v, kept as its square
ToFloat(v) == Exact(v * v, 1)

Min(a, b) == IF a < b THEN a ELSE b
Max(a, b) == IF a < b THEN b ELSE a

-----------------------------------------------------------------------------
(* numpy arrays: a shape and the cells in C (row-major) order *)

RECURSIVE Prod(_)
Prod(s) == IF Len(s) = 0 THEN 1 ELSE Head(s) * Prod(Tail(s))

Array(shape, data) == [shape |-> shape, data |-> data]
NoArray == Array(<<>>, <<>>)
Filled(shape, v) == Array(shape, [i \in 1..Prod(shape) |-> v])

ndim(a) == Len(a.shape)
HasNaN(a) == \E i \in 1..Len(a.data) : a.data[i].kind = "nan"

\* X.astype('float32'): always a new array
astype(a) == Array(a.shape, [i \in 1..Len(a.data) |-> ToFloat(a.data[i])])

\* np.reshape(a, shape): the same cells under another shape; ValueError when
\* the sizes differ
CanReshape(a, shape) == Prod(shape) = Len(a.data)
Reshape(a, shape) == Array(shape, a.data)

\* number of cells one step along `axis` (0-based) skips
Stride(shape, axis) == Prod(SubSeq(shape, axis + 2, Len(shape)))

\* the 0-based coordinates of the 1-based cell i
Coords(shape, i) ==
    [k \in 1..Len(shape) |-> ((i - 1) \div Stride(shape, k - 1)) % shape[k]]

RECURSIVE FlatIndex(_, _)
FlatIndex(shape, c) ==
    IF Len(shape) = 0 THEN 1
    ELSE c[1] * Stride(shape, 0) + FlatIndex(Tail(shape), Tail(c))

\* np.transpose(a, perm): axis k of the result is axis perm[k] of a
Transpose(a, perm) ==
    LET shp == [k \in 1..Len(perm) |-> a.shape[perm[k] + 1]]
        src(i) == LET c == Coords(shp, i)
                      old == [j \in 1..Len(perm) |->
                                c[CHOOSE k \in 1..Len(perm) : perm[k] = j - 1]]
                  IN FlatIndex(a.shape, old)
    IN Array(shp, [i \in 1..Len(a.data) |-> a.data[src(i)]])

\* the 1-D slice along `axis` through cell i, and i's place in it
AxisSlice(a, axis, i) ==
    LET st == Stride(a.shape, axis)
        pos == ((i - 1) \div st) % a.shape[axis + 1]
    IN [t \in 1..a.shape[axis + 1] |-> a.data[i - pos * st + (t - 1) * st]]
AxisPos(a, axis, i) == (((i - 1) \div Stride(a.shape, axis)) % a.shape[axis + 1]) + 1

-----------------------------------------------------------------------------
(* Brightness normalization (lines 82-90) *)

\* np.sum(r**2, 0): the rational <<P, Q>>; r holds exact values
RECURSIVE SumSq(_, _)
SumSq(r, n) ==
    IF n = 0 THEN <<0, 1>>
    ELSE LET s == SumSq(r, n - 1)
             t == Reduce(s[1] * r[n].q + r[n].p * s[2], s[2] * r[n].q)
         IN <<t.p, t.q>>

\* norm(r) = r / np.sqrt(np.sum(r**2, 0)) for the 1-D slice r.  Division by
\* zero raises nothing in numpy: 0/0 is NaN (a slice of zeros is all NaN).
norm(r) ==
    IF \E i \in 1..Len(r) : r[i].kind = "nan" THEN [i \in 1..Len(r) |-> NaNv]
    ELSE IF \E i \in 1..Len(r) : r[i].kind = "finite" THEN [i \in 1..Len(r) |-> Fin]
    ELSE LET s == SumSq(r, Len(r))
         IN [i \in 1..Len(r) |->
               IF s[1] = 0 THEN NaNv
               ELSE Reduce(r[i].p * s[2], r[i].q * s[1])]

\* np.apply_along_axis(norm, axis, X)
apply_along_axis(axis, X) ==
    Array(X.shape, [i \in 1..Len(X.data) |->
                      norm(AxisSlice(X, axis, i))[AxisPos(X, axis, i)]])

\* lines 82-90: the array after the normalization block
Normalize(BN, X) ==
    IF PyEqTrue(BN)
    THEN LET X1 == IF ndim(X) = 3 THEN apply_along_axis(2, X) ELSE X
         IN IF ndim(X1) = 2 THEN apply_along_axis(0, X1) ELSE X1
    ELSE X

-----------------------------------------------------------------------------
(* pysptools.noise.Whiten.apply (lines 91-92) *)

\* value of band b (1-based) at pixel p (1-based) of a cube
BandAt(M, p, b) == M.data[(p - 1) * M.shape[3] + b]
NPixels(M) == M.shape[1] * M.shape[2]

ConstantBand(M, b) == \A p \in 1..NPixels(M) : BandAt(M, p, b) = BandAt(M, 1, b)
EqualBands(M, b, c) == \A p \in 1..NPixels(M) : BandAt(M, p, b) = BandAt(M, p, c)

\* the covariance (sum of centred products / (N - 1)) is not a number
CovNaN(M) == HasNaN(M) \/ NPixels(M) = 1
\* the covariance is exactly the zero matrix
CovZero(M) == \A b \in 1..M.shape[3] : ConstantBand(M, b)
\* the covariance has rank below the band count: a constant band, a repeated
\* band, or no more pixels than bands
CovSingular(M) ==
    \/ NPixels(M) <= M.shape[3]
    \/ \E b \in 1..M.shape[3] : ConstantBand(M, b)
    \/ \E b, c \in 1..M.shape[3] : b < c /\ EqualBands(M, b, c)

\* What w.apply(M) can do.  It unpacks M.shape into three names (ValueError
\* otherwise), takes the SVD of the covariance and multiplies M by
\* V S^(-1/2) V^T.  A NaN covariance makes the SVD raise LinAlgError or
\* return NaN, as the LAPACK build decides; a zero singular value gives
\* inf and NaN; one that rounding left tiny but non-zero gives finite values
\* of no meaning.  No case raises an error of the transform's own.
WhitenOutcomes(M) ==
    IF ndim(M) # 3 THEN {"ValueError"}
    ELSE IF CovNaN(M) THEN {"LinAlgError", "nonfinite"}
    ELSE IF CovZero(M) THEN {"nonfinite"}
    ELSE IF CovSingular(M) THEN {"finite", "nonfinite"}
    ELSE {"finite"}

\* the whitened cube: the shape of M, contents not tracked
Whitened(M, o) == Filled(M.shape, IF o = "finite" THEN Fin ELSE NaNv)

-----------------------------------------------------------------------------
(* sklearn.decomposition.PCA (lines 96-97, 100) *)

\* the fixed-point 1.0 of a ratio: one digit more than np.round keeps
One == 10 ^ (Decimals + 1)
Coarse == One \div RatioParts

\* non-increasing sequences of k naturals, none above cap, summing to total
RECURSIVE Desc(_, _, _)
Desc(k, total, cap) ==
    IF k = 0 THEN (IF total = 0 THEN {<<>>} ELSE {})
    ELSE UNION { { <<x>> \o s : s \in Desc(k - 1, total - x, x) } :
                 x \in 0..Min(total, cap) }

\* PCA() keeps min(n_samples, n_features) components
PCAComponents(nSamples, nFeatures) == Min(nSamples, nFeatures)

\* the explained_variance_ratio_ vectors a fit with k components may give:
\* non-negative, non-increasing, summing to 1
PCARatios(k) ==
    { [i \in 1..k |-> s[i] * Coarse + (IF i = 1 THEN One - RatioParts * Coarse ELSE 0)] :
      s \in Desc(k, RatioParts, RatioParts) }

-----------------------------------------------------------------------------
(* Variance accounting (line 100) *)

\* truncation in place of rounding
round_down(x) == x \div 10

\* np.round(x, decimals=4): round half to even; the result counts 10^-4
round(x) ==
    LET q == x \div 10
        m == x % 10
    IN IF m < 5 THEN q
       ELSE IF m > 5 THEN q + 1
       ELSE IF q % 2 = 0 THEN q ELSE q + 1

\* np.cumsum
RECURSIVE SumTo(_, _)
SumTo(s, n) == IF n = 0 THEN 0 ELSE SumTo(s, n - 1) + s[n]
cumsum(s) == [i \in 1..Len(s) |-> SumTo(s, i)]

\* the running sum started one component late
CumulativeVarianceLate(evr) ==
    cumsum([i \in 1..(Len(evr) - 1) |-> round(evr[i + 1]) * Percent])

\* var = np.cumsum(np.round(pca.explained_variance_ratio_, decimals=4)*100),
\* in units of 10^-4 percent
CumulativeVariance(evr) == cumsum([i \in 1..Len(evr) |-> round(evr[i]) * Percent])

\* 100.0 in the units of var
Hundred == (10 ^ Decimals) * Percent

-----------------------------------------------------------------------------
(* Truncation (line 99) *)

\* a slice that keeps the item at its stop index too
SliceLenInclusive(len, n) == IF n >= 0 THEN Min(n + 1, len) ELSE Max(len + n + 1, 0)

\* number of items a[:n] keeps of len items (Python slice semantics)
SliceLen(len, n) == IF n >= 0 THEN Min(n, len) ELSE Max(len + n, 0)

\* mnf[:, :, :n]
TruncateBands(a, n) ==
    LET shp == <<a.shape[1], a.shape[2], SliceLen(a.shape[3], PyIndex(n))>>
    IN Array(shp, [j \in 1..Prod(shp) |-> a.data[FlatIndex(a.shape, Coords(shp, j))]])

-----------------------------------------------------------------------------
(* class MNF (lines 68-101) *)

\* __init__: a keyword the caller leaves out takes its default
MNFInit(n, bn) ==
    [n_components |-> IF n = Absent THEN PyInt(DefaultComponents) ELSE n,
     BrightnessNormalization |-> IF bn = Absent THEN PyFalse ELSE bn]

NoObject == [n_components |-> PyNone, BrightnessNormalization |-> PyNone]

\* a fit that resets the component count to its default
fit_reset(obj) == [obj EXCEPT !.n_components = PyInt(DefaultComponents)]

\* fit: the object after the call, which is also what the call returns
fit(obj) == obj

\* the locals of one transform call
NoFrame == [X |-> NoArray, wdata |-> NoArray, numBands |-> 0, h |-> 0, w |-> 0,
            evr |-> <<>>, mnf |-> NoArray, var |-> <<>>]

\* what a call gave its caller: a returned tuple or a raised exception
NoResult == [status |-> "none", exc |-> "", line |-> 0, value |-> <<>>]
Returned(v) == [status |-> "returned", exc |-> "", line |-> 101, value |-> v]
Raised(e, l) == [status |-> "raised", exc |-> e, line |-> l, value |-> <<>>]

\* the answers the numeric libraries gave so far: the same input gets the
\* same answer again
NoLib == [wArg |-> NoArray, wOut |-> "", pArg |-> NoArray, pOut |-> <<>>]

\* the call ends: control goes back to the caller
Leave(result) ==
    /\ ret' = result
    /\ calls' = calls + 1
    /\ first' = IF calls = 0 THEN result ELSE first
    /\ pc' = IF mode = "api" THEN "idle"
             ELSE IF result.status = "returned" THEN "m170" ELSE "crashed"

\* model.fit(X) (line 77), called on its own or first in fit_transform
Fit ==
    /\ pc \in {"idle", "m158"}
    /\ pc' = IF pc = "idle" THEN "idle" ELSE "m158t"
    /\ self' = fit(self)
    /\ UNCHANGED <<mode, argv, kwargs, disk, args, r2, n_components, img, fr, ret,
                   lib, calls, first, tif, csv>>

\* model.transform(X) is entered (line 78), on its own or on what fit
\* returned: X names the caller's array
Call ==
    /\ \/ pc = "idle" /\ calls < MaxCalls
       \/ pc = "m158t"
    /\ fr' = [NoFrame EXCEPT !.X = img]
    /\ pc' = "t79"
    /\ UNCHANGED <<mode, argv, kwargs, disk, args, r2, n_components, img, self,
                   ret, lib, calls, first, tif, csv>>

\* line 79
T79 ==
    /\ pc = "t79"
    /\ fr' = [fr EXCEPT !.X = astype(fr.X)]
    /\ pc' = "t82"
    /\ UNCHANGED <<mode, argv, kwargs, disk, args, r2, n_components, img, self,
                   ret, lib, calls, first, tif, csv>>

\* lines 82-90
T82 ==
    /\ pc = "t82"
    /\ fr' = [fr EXCEPT !.X = Normalize(self.BrightnessNormalization, fr.X)]
    /\ pc' = "t91"
    /\ UNCHANGED <<mode, argv, kwargs, disk, args, r2, n_components, img, self,
                   ret, lib, calls, first, tif, csv>>

\* lines 91-92
T91 ==
    /\ pc = "t91"
    /\ \E o \in WhitenOutcomes(fr.X) :
         /\ lib.wArg = fr.X => o = lib.wOut
         /\ lib' = [lib EXCEPT !.wArg = fr.X, !.wOut = o]
         /\ IF o \in {"ValueError", "LinAlgError"}
            THEN /\ Leave(Raised(o, 92))
                 /\ UNCHANGED fr
            ELSE /\ fr' = [fr EXCEPT !.wdata = Whitened(fr.X, o)]
                 /\ pc' = "t93"
                 /\ UNCHANGED <<ret, calls, first>>
    /\ UNCHANGED <<mode, argv, kwargs, disk, args, r2, n_components, img, self,
                   tif, csv>>

\* lines 93-95
T93 ==
    /\ pc = "t93"
    /\ LET shp == fr.wdata.shape
       IN fr' = [fr EXCEPT !.h = shp[1], !.w = shp[2], !.numBands = shp[3],
                           !.X = Reshape(fr.wdata, <<shp[2] * shp[1], shp[3]>>)]
    /\ pc' = "t96"
    /\ UNCHANGED <<mode, argv, kwargs, disk, args, r2, n_components, img, self,
                   ret, lib, calls, first, tif, csv>>

\* lines 96-97: PCA().fit_transform(X); sklearn refuses NaN and inf
T96 ==
    /\ pc = "t96"
    /\ IF HasNaN(fr.X)
       THEN /\ Leave(Raised("ValueError", 97))
            /\ UNCHANGED <<fr, lib>>
       ELSE \E e \in PCARatios(PCAComponents(fr.X.shape[1], fr.X.shape[2])) :
              /\ lib.pArg = fr.X => e = lib.pOut
              /\ lib' = [lib EXCEPT !.pArg = fr.X, !.pOut = e]
              /\ fr' = [fr EXCEPT !.evr = e,
                                  !.mnf = Filled(<<fr.X.shape[1], Len(e)>>, Fin)]
              /\ pc' = "t98"
              /\ UNCHANGED <<ret, calls, first>>
    /\ UNCHANGED <<mode, argv, kwargs, disk, args, r2, n_components, img, self,
                   tif, csv>>

\* line 98
T98 ==
    /\ pc = "t98"
    /\ IF CanReshape(fr.mnf, <<fr.h, fr.w, fr.numBands>>)
       THEN /\ fr' = [fr EXCEPT !.mnf = Reshape(fr.mnf, <<fr.h, fr.w, fr.numBands>>)]
            /\ pc' = "t99"
            /\ UNCHANGED <<ret, calls, first>>
       ELSE /\ Leave(Raised("ValueError", 98))
            /\ UNCHANGED fr
    /\ UNCHANGED <<mode, argv, kwargs, disk, args, r2, n_components, img, self,
                   lib, tif, csv>>

\* lines 99-101
T99 ==
    /\ pc = "t99"
    /\ LET mnf == TruncateBands(fr.mnf, self.n_components)
           var == CumulativeVariance(fr.evr)
       IN /\ fr' = [fr EXCEPT !.mnf = mnf, !.var = var]
          /\ Leave(Returned(<<mnf, var>>))
    /\ UNCHANGED <<mode, argv, kwargs, disk, args, r2, n_components, img, self,
                   lib, tif, csv>>

-----------------------------------------------------------------------------
(* The script (lines 118-179) and saveMNF (lines 103-114) *)

NoArgs == [components |-> PyNone, preprop |-> PyNone]
NoKwargs == [n_components |-> Absent, BrightnessNormalization |-> Absent]
NoTif == [name |-> "", height |-> 0, width |-> 0, count |-> 0, data |-> NoArray]

\* parser.parse_args(): -c is an int with default=False, -p is store_true
ParseArgs(av) ==
    [components |-> IF av.components = Absent THEN PyFalse ELSE av.components,
     preprop |-> IF av.preprop THEN PyTrue ELSE PyFalse]

\* lines 145-148
SelectComponents(a, raster) ==
    IF a.components.t # "NoneType" THEN a.components ELSE PyInt(raster.shape[1])

\* lines 171-178: the label column, the variance column and their
\* concatenation side by side; a row one column lacks holds NA there
NA == [na |-> TRUE, text |-> "", num |-> 0]
Label(i) == [na |-> FALSE, text |-> "MNF", num |-> i]
Number(v) == [na |-> FALSE, text |-> "", num |-> v]
BandNames(mnf) == [i \in 1..mnf.shape[3] |-> Label(i)]
Table(bandNames, var) ==
    [i \in 1..Max(Len(bandNames), Len(var)) |->
       [Bands |-> IF i <= Len(bandNames) THEN bandNames[i] ELSE NA,
        AccVariance |-> IF i <= Len(var) THEN Number(var[i]) ELSE NA]]

\* lines 121-134
Parse ==
    /\ mode = "script" /\ pc = "m134"
    /\ args' = ParseArgs(argv)
    /\ pc' = "m141"
    /\ UNCHANGED <<mode, argv, kwargs, disk, r2, n_components, img, self,
                   fr, ret, lib, calls, first, tif, csv>>

\* lines 141-142
Read ==
    /\ pc = "m141"
    /\ r2' = disk
    /\ pc' = "m145"
    /\ UNCHANGED <<mode, argv, kwargs, disk, args, n_components, img, self,
                   fr, ret, lib, calls, first, tif, csv>>

\* lines 145-148
Select ==
    /\ pc = "m145"
    /\ n_components' = SelectComponents(args, r2)
    /\ pc' = "m150"
    /\ UNCHANGED <<mode, argv, kwargs, disk, args, r2, img, self,
                   fr, ret, lib, calls, first, tif, csv>>

\* line 150
ToRowColBand ==
    /\ pc = "m150"
    /\ img' = Transpose(r2, <<1, 2, 0>>)
    /\ pc' = "m155"
    /\ UNCHANGED <<mode, argv, kwargs, disk, args, r2, n_components, self,
                   fr, ret, lib, calls, first, tif, csv>>

\* lines 155-157 and 162-164
Construct ==
    /\ pc = "m155"
    /\ kwargs' = [n_components |-> n_components,
                  BrightnessNormalization |->
                      IF PyEqTrue(args.preprop) THEN PyTrue ELSE Absent]
    /\ self' = MNFInit(kwargs'.n_components, kwargs'.BrightnessNormalization)
    /\ pc' = "m158"
    /\ UNCHANGED <<mode, argv, disk, args, r2, n_components, img,
                   fr, ret, lib, calls, first, tif, csv>>

\* line 170, saveMNF: rasterio may refuse to create a dataset of no band
Save ==
    /\ pc = "m170"
    /\ LET mnf == ret.value[1]
           out == [name |-> IF PyEqTrue(args.preprop) THEN "_MNF_BN.tif" ELSE "_MNF.tif",
                   height |-> r2.shape[2], width |-> r2.shape[3],
                   count |-> mnf.shape[3],
                   data |-> Transpose(mnf, <<2, 0, 1>>)]
       IN \/ /\ tif' = out
             /\ pc' = "m171"
          \/ /\ mnf.shape[3] = 0
             /\ tif' = tif
             /\ pc' = "crashed"
    /\ UNCHANGED <<mode, argv, kwargs, disk, args, r2, n_components, img, self, fr, ret, lib, calls, first, csv>>

\* lines 171-179: with no label the table has one column, and naming two
\* (line 178) raises ValueError
Export ==
    /\ pc = "m171"
    /\ LET bandNames == BandNames(ret.value[1])
       IN IF Len(bandNames) = 0
          THEN /\ csv' = csv
               /\ pc' = "crashed"
          ELSE /\ csv' = Table(bandNames, ret.value[2])
               /\ pc' = "done"
    /\ UNCHANGED <<mode, argv, kwargs, disk, args, r2, n_components, img, self, fr, ret, lib, calls, first, tif>>

-----------------------------------------------------------------------------
(* Inputs *)

\* rows and columns of an input
Grids == { <<h, w>> : h \in 1..MaxPixels, w \in 1..MaxPixels }

ArraysOf(shape) == { Array(shape, d) : d \in [1..Prod(shape) -> DN] }

\* raster files: (bands, rows, cols)
Rasters ==
    UNION { ArraysOf(<<b, g[1], g[2]>>) :
            b \in 1..MaxBands, g \in { x \in Grids : x[1] * x[2] <= MaxPixels } }

\* arrays a caller of the class passes: cubes (rows, cols, bands) and 2-D
\* arrays (pixels, bands)
Cubes ==
    UNION { ArraysOf(<<g[1], g[2], b>>) :
            b \in 1..MaxBands, g \in { x \in Grids : x[1] * x[2] <= MaxPixels } }
Matrices == UNION { ArraysOf(<<p, b>>) : p \in 1..MaxPixels, b \in 1..MaxBands }

\* values given for the number of components
ComponentValues == { PyInt(i) : i \in -1..(MaxBands + 1) }

ScriptInputs ==
    /\ mode = "script" /\ pc = "m134"
    /\ argv \in [components : {Absent} \cup ComponentValues, preprop : BOOLEAN]
    /\ disk \in Rasters
    /\ kwargs = NoKwargs /\ self = NoObject /\ img = NoArray

ApiInputs ==
    /\ mode = "api" /\ pc = "idle"
    /\ argv = [components |-> Absent, preprop |-> FALSE]
    /\ disk = NoArray
    /\ kwargs \in [n_components : {Absent} \cup { PyInt(i) : i \in 0..MaxBands },
                   BrightnessNormalization : {Absent, PyTrue}]
    /\ self = MNFInit(kwargs.n_components, kwargs.BrightnessNormalization)
    /\ img \in Cubes \cup Matrices

Rest ==
    /\ args = NoArgs /\ r2 = NoArray /\ n_components = PyNone
    /\ fr = NoFrame /\ ret = NoResult /\ lib = NoLib
    /\ calls = 0 /\ first = NoResult /\ tif = NoTif /\ csv = <<>>

\* MNF.py run as a script
Init == ScriptInputs /\ Rest

Transform == Fit \/ Call \/ T79 \/ T82 \/ T91 \/ T93 \/ T96 \/ T98 \/ T99

Next ==
    \/ Parse \/ Read \/ Select \/ ToRowColBand \/ Construct \/ Save \/ Export
    \/ Transform

Spec == Init /\ [][Next]_vars

\* class MNF used by a caller of its own
InitApi == ApiInputs /\ Rest

SpecApi == InitApi /\ [][Transform]_vars

-----------------------------------------------------------------------------
(* The variance accounting on its own: line 99-101 entered with the ratios *)
(* of a full decomposition of k bands                                      *)

Perturb == (-MaxPerturb)..MaxPerturb
RatioGrid == { x \in { c * Coarse + d : c \in 0..RatioParts, d \in Perturb } :
               x >= 0 /\ x <= One }

\* non-increasing sequences of k grid ratios, none above cap, summing to at
\* most left
RECURSIVE Lead(_, _, _)
Lead(k, cap, left) ==
    IF k = 0 THEN {<<>>}
    ELSE UNION { { <<x>> \o s : s \in Lead(k - 1, x, left - x) } :
                 x \in { g \in RatioGrid : g <= cap /\ g <= left } }

\* ratio vectors of k bands: non-negative, non-increasing, summing to 1
RatioInputs(k) ==
    { v \in { Append(s, One - SumTo(s, k - 1)) : s \in Lead(k - 1, One, One) } :
      k = 1 \/ v[k] <= v[k - 1] }

\* a cube of k + 1 pixels and k bands of full-rank covariance: pixel p has
\* band p set, the last pixel has none
Simplex(k) == Array(<<1, k + 1, k>>,
                    [i \in 1..((k + 1) * k) |->
                       IF (i - 1) \div k = (i - 1) % k THEN 1 ELSE 0])

InitVar ==
    /\ mode = "api" /\ pc = "t99"
    /\ argv = [components |-> Absent, preprop |-> FALSE]
    /\ disk = NoArray /\ args = NoArgs /\ r2 = NoArray /\ n_components = PyNone
    /\ \E k \in 1..MaxRatioBands :
         /\ kwargs = [n_components |-> PyInt(k), BrightnessNormalization |-> Absent]
         /\ img = Simplex(k)
         /\ \E e \in RatioInputs(k) :
              /\ fr = [X |-> Filled(<<k + 1, k>>, Fin),
                       wdata |-> Filled(<<1, k + 1, k>>, Fin),
                       numBands |-> k, h |-> 1, w |-> k + 1, evr |-> e,
                       mnf |-> Filled(<<1, k + 1, k>>, Fin), var |-> <<>>]
              /\ lib = [wArg |-> astype(img), wOut |-> "finite",
                        pArg |-> fr.X, pOut |-> e]
    /\ self = MNFInit(kwargs.n_components, kwargs.BrightnessNormalization)
    /\ ret = NoResult /\ calls = 0 /\ first = NoResult /\ tif = NoTif /\ csv = <<>>

SpecVar == InitVar /\ [][T99]_vars

-----------------------------------------------------------------------------
(* Properties *)

\* the component count of the object, as the slice of line 99 reads it
N == PyIndex(self.n_components)
BN == PyEqTrue(self.BrightnessNormalization)
Finished == ret.status # "none"
Abs(x) == IF x < 0 THEN -x ELSE x
\* a component count the specification allows for the input
ValidN == 1 <= N /\ N <= img.shape[Len(img.shape)]

\* the input as one row of pixels, whatever its rank
PixelRow(a) == Reshape(a, <<1, Len(a.data) \div a.shape[Len(a.shape)], a.shape[Len(a.shape)]>>)
\* every pixel vector divided by its own L2 norm
PerPixel(a) == apply_along_axis(Len(a.shape) - 1, a)
\* an input whose whitening is well defined: no zero pixel under
\* normalization, several pixels, a covariance of full rank
WellPosed(a) ==
    WhitenOutcomes(PixelRow(IF BN THEN PerPixel(astype(a)) ELSE astype(a))) = {"finite"}
ZeroPixel(a) ==
    \E p \in 1..NPixels(PixelRow(a)) :
       \A b \in 1..PixelRow(a).shape[3] : BandAt(PixelRow(a), p, b) = 0

\* C1: a returned component cube has the rows and columns of the input cube
\* and exactly n_components bands, for 1 <= n_components <= bands.
C1_Shape ==
    (ret.status = "returned" /\ ValidN)
        => ret.value[1].shape = <<img.shape[1], img.shape[2], N>>

C1_Witness ==
    /\ ret.status = "returned"
    /\ img.shape = <<1, 2, 2>> /\ N = 1
    /\ ret.value[1].shape = <<1, 2, 1>>

\* C2: with n_components outside 1..bands the transform ends in a
\* ConfigurationError and returns no cube (stated for inputs that a valid
\* n_components would transform).
C2_ConfigurationError ==
    (Finished /\ WellPosed(img) /\ ~ValidN)
        => (ret.status = "raised" /\ ret.exc = "ConfigurationError")

\* C3: with no -c option the number of retained components is the band
\* count of the input raster.
C3_DefaultAllBands ==
    (argv.components = Absent /\ ret.status = "returned")
        => ret.value[1].shape[3] = r2.shape[1]

\* the tolerance 0.01 and the rounding error 0.005 of one ratio, in the units
\* of var
Tolerance == Hundred \div (100 * Percent)
HalfStep == Percent \div 2

NonDecreasing(v) == \A i \in 1..(Len(v) - 1) : v[i] <= v[i + 1]

\* C4 as stated: the cumulative variance is non-decreasing and ends within
\* 0.01 of 100.0.
C4_Within001 ==
    ret.status = "returned"
        => LET v == ret.value[2]
           IN NonDecreasing(v) /\ Abs(v[Len(v)] - Hundred) <= Tolerance

\* C4 as amended: the cumulative variance is non-decreasing and ends within
\* 0.005 times the band count of 100.0.
C4_WithinHalfStepPerBand ==
    ret.status = "returned"
        => LET v == ret.value[2]
           IN NonDecreasing(v) /\ Abs(v[Len(v)] - Hundred) <= Len(v) * HalfStep

C4_Witness ==
    /\ ret.status = "returned"
    /\ Len(ret.value[2]) = 4
    /\ Abs(ret.value[2][4] - Hundred) = 2 * Tolerance

\* C5: the returned variance vector has one entry per band of the whitened
\* cube, whatever n_components is.
C5_VarianceLength ==
    ret.status = "returned" => Len(ret.value[2]) = fr.wdata.shape[3]

C5_Witness ==
    /\ ret.status = "returned"
    /\ ret.value[1].shape[3] < fr.wdata.shape[3]
    /\ Len(ret.value[2]) = fr.wdata.shape[3]

\* C6: an input with a constant band ends in a DegenerateDataError raised
\* at the whitening step (line 92), never later and never with a result.
C6_DegenerateDataError ==
    (Finished /\ ~BN /\ ValidN /\ NPixels(img) > 1
       /\ \E b \in 1..img.shape[3] : ConstantBand(img, b))
        => (ret.status = "raised" /\ ret.exc = "DegenerateDataError" /\ ret.line = 92)

\* C7: under brightness normalization a pixel of zeros does not make the
\* transform raise, and the number of such pixels is given to the caller
\* with the result.
C7_ZeroNormContinues ==
    (Finished /\ BN /\ ValidN /\ NPixels(img) > 1 /\ ZeroPixel(img))
        => (ret.status = "returned" /\ Len(ret.value) > 2)

\* C8: the exported table has one row per band of the returned cube, row i
\* holding the label MNF<i> and the cumulative variance of component i.
C8_OneRowPerComponent ==
    (pc = "done" /\ ValidN)
        => /\ Len(csv) = ret.value[1].shape[3]
           /\ \A i \in 1..Len(csv) :
                /\ csv[i].Bands = Label(i)
                /\ csv[i].AccVariance = Number(ret.value[2][i])

\* C9: under brightness normalization every pixel vector is divided by its
\* own L2 norm, for 3-D and for 2-D inputs, and a well-posed input of either
\* rank is transformed.
C9_PerPixelNorm ==
    BN => /\ pc = "t91" => fr.X = PerPixel(astype(img))
          /\ (pc = "idle" /\ calls > 0 /\ WellPosed(img)) => ret.status = "returned"

\* C10: no step of fit or transform changes the object's parameters or the
\* caller's image, and a later call returns what the first call returned.
C10_Stateless ==
    /\ [][self' = self /\ kwargs' = kwargs /\ img' = img]_vars
    /\ [](pc = "idle" /\ calls >= 2 => ret = first)

C10_Witness ==
    /\ pc = "idle" /\ calls = 2
    /\ ret.status = "returned" /\ BN /\ N = 1

=============================================================================
